---- MODULE Spec2Model ----
(***************************************************************************)
(* SMFViewer: the .SMF parser (src/pysmf.py, class SMFParser), the POD     *)
(* extractor (src/POD-2-SMF.py, extract_smfs_from_pod), the OBJ exporter   *)
(* (src/pysmf_export.py, export_to_obj) and the threads of the viewer      *)
(* (src/pysmf-gui.py, class SMFViewer).                                    *)
(*                                                                         *)
(* A line of text is a sequence of characters; a character is a            *)
(* one-character string.  Two characters are written by name because they  *)
(* cannot be written in a module: "sup2" is U+00B2 (SUPERSCRIPT TWO, for   *)
(* which str.isdigit() is true and int() raises ValueError) and "\t" is a  *)
(* tab.  In a line of bytes "xFF" is the byte 0xFF, which no UTF-8 text    *)
(* contains.  Python positions are 0-based, sequence positions here 1-based:    *)
(* Python's lines[k] is lines[k + 1] here.                                 *)
(***************************************************************************)
EXTENDS Integers, Sequences, FiniteSets, TLC

VARIABLES
    file,             \* the raw lines of the file at the path given to parse
    pc,               \* where the parser object is: "idle" (constructed, no call
                      \* running), "loop" (in parse's while loop), "done" (parse
                      \* returned), "raised" (parse raised from its loop),
                      \* "ioerror" (open/read failed)
    calls,            \* number of parse calls started on this parser object
    lines,            \* parse's local: the stripped non-blank lines
    i,                \* parse's local: 0-based position of the current line
    current_submesh,  \* parse's local: <<>> is None, <<sm>> an open submesh
    vertices,         \* self.vertices
    submeshes,        \* self.submeshes
    textures,         \* self.textures
    version,          \* self.version: <<>> is None, <<n>> an integer
    header,           \* self.header: <<>> is {}, <<t>> is {"type": t}
    results,          \* the models returned so far, each as it was on return
    returned,         \* the models returned so far, each as its holder sees it
                      \* now: a returned dict holds the parser's own header
                      \* dict and vertex, submesh and texture lists, not copies
    pod_file,         \* extract_smfs_from_pod: the raw lines of the .POD file
                      \* (each without its line terminator)
    ppc,              \* where extract_smfs_from_pod is: "none" (not called),
                      \* "called", "loop" (in its for loop), "done" (returned),
                      \* "raised" (an exception left it)
    pod_read,         \* the number of raw lines the for loop has consumed
    smf_count,        \* smf_count
    current_file,     \* current_file: "none" is None, "open" a file object open
                      \* on the file at current_path, "closed" a closed one
    current_path,     \* current_path: <<>> is None, <<name>> a file name in
                      \* the output directory
    output_dir,       \* the files of the output directory: a function from
                      \* file names to contents, each a sequence of raw lines
    epc,              \* where export_to_obj is: "none" (not called), "parsing"
                      \* (in parser.parse), "loop" (in its for loop), "done"
                      \* (returned), "raised" (an exception left it)
    sm_index,         \* sm_index: the 0-based position of the next submesh
    vertex_offset,    \* vertex_offset
    obj_file,         \* the lines written to the .OBJ file, in order
    running,          \* SMFViewer.run's local running; "none" when there is no
                      \* viewer, else "yes" or "no"
    model_data,       \* self.model_data: <<>> is None, <<[n |-> k]>> a parsed
                      \* model of k submeshes
    last_loaded_path, \* self.last_loaded_path: <<>> is None, <<f>> a file
    drawing,          \* self.drawing
    paused,           \* self.paused
    draw_index,       \* self.draw_index
    loads,            \* the threads started on load_smf: for each its position
                      \* ("idle" when not started) and its local path
    bg_pc,            \* where the thread of draw_model_incremental is
    bg_index          \* the value of self.draw_index that thread last read

smfvars == <<file, pc, calls, lines, i, current_submesh, vertices, submeshes,
             textures, version, header, results, returned>>

podvars == <<pod_file, ppc, pod_read, smf_count, current_file, current_path, output_dir>>

objvars == <<epc, sm_index, vertex_offset, obj_file>>

guivars == <<running, model_data, last_loaded_path, drawing, paused, draw_index,
             loads, bg_pc, bg_index>>

vars == <<smfvars, podvars, objvars, guivars>>

(***************************************************************************)
(* Characters and str methods                                              *)
(***************************************************************************)
LowerLetters == <<"a","b","c","d","e","f","g","h","i","j","k","l","m",
                  "n","o","p","q","r","s","t","u","v","w","x","y","z">>

UpperLetters == <<"A","B","C","D","E","F","G","H","I","J","K","L","M",
                  "N","O","P","Q","R","S","T","U","V","W","X","Y","Z">>

DecDigits == <<"0","1","2","3","4","5","6","7","8","9">>

Range(s) == {s[k] : k \in 1..Len(s)}

LowerSet == Range(LowerLetters)

UpperSet == Range(UpperLetters)

DecSet == Range(DecDigits)

IndexOf(c, s) == CHOOSE k \in 1..Len(s) : s[k] = c

\* str.isalpha on one character (ASCII letters)
IsAlphaCh(c) == c \in LowerSet \/ c \in UpperSet

\* a decimal digit, the only characters int() and float() read as digits here
IsDecCh(c) == c \in DecSet

\* str.isdigit on one character: decimal digits and digit-like characters
\* such as U+00B2
IsDigitCh(c) == IsDecCh(c) \/ c = "sup2"

IsSpaceCh(c) == c \in {" ", "\t"}

DigitVal(c) == IndexOf(c, DecDigits) - 1

UpperCh(c) == IF c \in LowerSet THEN UpperLetters[IndexOf(c, LowerLetters)] ELSE c

LowerCh(c) == IF c \in UpperSet THEN LowerLetters[IndexOf(c, UpperLetters)] ELSE c

\* str.upper
Upper(s) == [k \in 1..Len(s) |-> UpperCh(s[k])]

\* str.lower
Lower(s) == [k \in 1..Len(s) |-> LowerCh(s[k])]

\* str.isdigit: non-empty and every character a digit
IsDigit(s) == Len(s) > 0 /\ \A k \in 1..Len(s) : IsDigitCh(s[k])

\* str.isalpha: non-empty and every character a letter
IsAlpha(s) == Len(s) > 0 /\ \A k \in 1..Len(s) : IsAlphaCh(s[k])

\* str.startswith
StartsWith(s, p) == Len(s) >= Len(p) /\ SubSeq(s, 1, Len(p)) = p

\* sub in s
Contains(s, sub) ==
    \E k \in 0..(Len(s) - Len(sub)) : SubSeq(s, k + 1, k + Len(sub)) = sub

\* str.strip(): leading and trailing whitespace removed
Strip(s) ==
    LET keep == {k \in 1..Len(s) : ~IsSpaceCh(s[k])}
    IN  IF keep = {} THEN <<>>
        ELSE SubSeq(s, CHOOSE a \in keep : \A b \in keep : a <= b,
                       CHOOSE a \in keep : \A b \in keep : a >= b)

\* str.replace(c, ''): every occurrence of the character c removed
RemoveCh(s, c) == SelectSeq(s, LAMBDA x : x # c)

RECURSIVE Split(_, _)
\* str.split(sep) for a one-character separator
Split(s, sep) ==
    IF \A k \in 1..Len(s) : s[k] # sep THEN <<s>>
    ELSE LET k == CHOOSE a \in 1..Len(s) :
                      s[a] = sep /\ \A b \in 1..(a - 1) : s[b] # sep
         IN  <<SubSeq(s, 1, k - 1)>> \o Split(SubSeq(s, k + 1, Len(s)), sep)

(***************************************************************************)
(* int() and float() of a string.  The result is <<>> when the call raises *)
(* ValueError and <<value>> otherwise.                                     *)
(***************************************************************************)
RECURSIVE DigitsVal(_)
\* the value of a sequence of decimal digits
DigitsVal(ds) ==
    IF ds = <<>> THEN 0
    ELSE 10 * DigitsVal(SubSeq(ds, 1, Len(ds) - 1)) + DigitVal(ds[Len(ds)])

\* a digit string as int() and float() accept it: decimal digits, single
\* underscores allowed between two digits
IsDigitRun(s) ==
    /\ Len(s) > 0
    /\ \A k \in 1..Len(s) : IsDecCh(s[k]) \/ s[k] = "_"
    /\ s[1] # "_" /\ s[Len(s)] # "_"
    /\ \A k \in 1..(Len(s) - 1) : ~(s[k] = "_" /\ s[k + 1] = "_")

HasSign(s) == Len(s) > 0 /\ s[1] \in {"+", "-"}

Unsigned(s) == IF HasSign(s) THEN SubSeq(s, 2, Len(s)) ELSE s

\* int(x) for a string x
IntOf(x) ==
    LET s == Strip(x)
        body == Unsigned(s)
    IN  IF ~IsDigitRun(body) THEN <<>>
        ELSE LET n == DigitsVal(RemoveCh(body, "_"))
             IN  <<IF HasSign(s) /\ s[1] = "-" THEN 0 - n ELSE n>>

RECURSIVE Normal(_, _)
\* the pair <<m, e>> with the same value m * 10^e and m not a multiple of 10
Normal(m, e) ==
    IF m = 0 THEN <<0, 0>>
    ELSE IF m % 10 = 0 THEN Normal(m \div 10, e + 1)
    ELSE <<m, e>>

\* float(x) for a string x.  A finite value is [k |-> "num", m, e], the
\* number m * 10^e with m an integer not a multiple of 10 (so equal numbers
\* are equal records; -0.0 == 0.0 as in Python); binary rounding is not
\* modelled.  "inf"/"infinity"/"nan" give k = "inf" (m = 1 or -1) or "nan".
FloatOf(x) ==
    LET s == Lower(Strip(x))
        neg == HasSign(s) /\ s[1] = "-"
        body == Unsigned(s)
        ePos == {k \in 1..Len(body) : body[k] = "e"}
        hasExp == ePos # {}
        ek == IF hasExp THEN CHOOSE a \in ePos : \A b \in ePos : a <= b ELSE Len(body) + 1
        mant == SubSeq(body, 1, ek - 1)
        expo == SubSeq(body, ek + 1, Len(body))
        dots == {k \in 1..Len(mant) : mant[k] = "."}
        dk == IF dots = {} THEN Len(mant) + 1 ELSE CHOOSE a \in dots : TRUE
        ip == SubSeq(mant, 1, dk - 1)
        fp == SubSeq(mant, dk + 1, Len(mant))
        mantOk == /\ Cardinality(dots) <= 1
                  /\ ip = <<>> \/ IsDigitRun(ip)
                  /\ fp = <<>> \/ IsDigitRun(fp)
                  /\ ip # <<>> \/ fp # <<>>
        expOk == ~hasExp \/ IsDigitRun(Unsigned(expo))
        ev == IF hasExp /\ expOk
              THEN (IF expo[1] = "-" THEN -1 ELSE 1) * DigitsVal(RemoveCh(Unsigned(expo), "_"))
              ELSE 0
        fd == RemoveCh(fp, "_")
        mv == DigitsVal(RemoveCh(ip, "_") \o fd)
        nm == Normal(IF neg THEN 0 - mv ELSE mv, ev - Len(fd))
    IN  IF body \in {<<"i","n","f">>, <<"i","n","f","i","n","i","t","y">>}
        THEN <<[k |-> "inf", m |-> IF neg THEN -1 ELSE 1, e |-> 0]>>
        ELSE IF body = <<"n","a","n">>
        THEN <<[k |-> "nan", m |-> 0, e |-> 0]>>
        ELSE IF mantOk /\ expOk
        THEN <<[k |-> "num", m |-> nm[1], e |-> nm[2]]>>
        ELSE <<>>

(***************************************************************************)
(* SMFParser                                                               *)
(***************************************************************************)
\* SMFParser._clean_tex
CleanTex(line) ==
    LET tex == Strip(RemoveCh(line, "\""))
        parts == Split(tex, ",")
    IN  Strip(parts[Len(parts)])

\* the lines parse works on: [ln.strip() for ln in f if ln.strip()]
ReadLines(f) == SelectSeq([k \in 1..Len(f) |-> Strip(f[k])], LAMBDA ln : ln # <<>>)

\* line.startswith("C3DModel")
IsHeader(line) == StartsWith(line, <<"C","3","D","M","o","d","e","l">>)

\* IsVersionLine with the bug of not testing self.version is None
IsVersionLineAnyTime(ver, line) == IsDigit(line)

\* self.version is None and line.isdigit()
IsVersionLine(ver, line) == ver = <<>> /\ IsDigit(line)

\* IsSubmeshStart with the bug of testing line.isalnum()
IsSubmeshStartAlnum(line) ==
    Len(line) > 0 /\ \A k \in 1..Len(line) : IsAlphaCh(line[k]) \/ IsDigitCh(line[k])

\* line.isalpha()
IsSubmeshStart(line) == IsAlpha(line)

\* line.lower().startswith('v')
IsVertexMarker(line) == StartsWith(Lower(line), <<"v">>)

\* IsTextureRef with the bug of looking for .TIF in the line as written
IsTextureRefAsWritten(line) == Contains(line, <<".","T","I","F">>)

\* ".TIF" in line.upper()
IsTextureRef(line) == Contains(Upper(line), <<".","T","I","F">>)

\* NewSubmesh with the bug of starting from the lists of the submesh being
\* closed instead of fresh ones
NewSubmeshSharingLists(line) ==
    [name |-> line,
     vertices |-> IF current_submesh # <<>> THEN current_submesh[1].vertices ELSE <<>>,
     faces |-> IF current_submesh # <<>> THEN current_submesh[1].faces ELSE <<>>,
     textures |-> <<>>,
     has_counts |-> FALSE, vertex_count |-> <<>>, face_count |-> <<>>]

\* the dict a submesh-start line creates; the keys 'vertex_count' and
\* 'face_count' are absent from it (has_counts = FALSE) until the hint scan
\* sets them (to an integer, <<n>>, or to None, <<>>).  The look-ahead of
\* lines 95-107 computes two locals that are never stored or read.
NewSubmesh(line) ==
    [name |-> line, vertices |-> <<>>, faces |-> <<>>, textures |-> <<>>,
     has_counts |-> FALSE, vertex_count |-> <<>>, face_count |-> <<>>]

\* AddUnique with the bug of appending without looking
AddAlways(list, x) == Append(list, x)

\* if x not in list: list.append(x)
AddUnique(list, x) == IF x \in Range(list) THEN list ELSE Append(list, x)

\* RecordsTexture with the bug of not looking at the vertices stored so far
RecordsTextureAnyTime(sm, tex) == tex # <<>>

\* the texture branch's test on an open submesh: textures are recorded only
\* before vertex data begins, and only under a non-empty name
RecordsTexture(sm, tex) == Len(sm.vertices) = 0 /\ tex # <<>>

\* the bounds of the hint scan's range(back_range, min(i + 3, len(lines))):
\* 0-based positions ScanLo(i) .. ScanHi(i, n) - 1
ScanLo(pos) == IF pos - 6 > 0 THEN pos - 6 ELSE 0

\* ScanHi with the bug of a range that ends one position later
ScanHiOneMore(pos, n) == IF pos + 4 < n THEN pos + 4 ELSE n

ScanHi(pos, n) == IF pos + 3 < n THEN pos + 3 ELSE n

\* whether the hint scan takes its counts from the candidate line cand
IsCountsLine(cand) ==
    LET p == Split(cand, ",")
    IN  Len(p) >= 4 /\ IntOf(p[1]) # <<>> /\ IntOf(p[3]) # <<>>

RECURSIVE ScanCountsSecondField(_, _, _)
\* ScanCounts with the bug of reading the face count from the second field
ScanCountsSecondField(ls, j, hi) ==
    IF j >= hi THEN <<>>
    ELSE IF IsCountsLine(ls[j + 1])
         THEN LET p == Split(ls[j + 1], ",")
              IN  <<[vertex_count |-> IntOf(p[1]), face_count |-> IntOf(p[2])]>>
         ELSE ScanCountsSecondField(ls, j + 1, hi)

RECURSIVE ScanCounts(_, _, _)
\* the hint scan's for loop from 0-based position j up to hi - 1: <<>> when
\* no candidate is found, else <<[vertex_count, face_count]>> of the first
ScanCounts(ls, j, hi) ==
    IF j >= hi THEN <<>>
    ELSE IF IsCountsLine(ls[j + 1])
         THEN LET p == Split(ls[j + 1], ",")
              IN  <<[vertex_count |-> IntOf(p[1]), face_count |-> IntOf(p[3])]>>
         ELSE ScanCounts(ls, j + 1, hi)

\* "Populate vertex/face count hints if missing" on the open submesh sm
WithCounts(sm, ls, pos) ==
    IF sm.has_counts THEN sm
    ELSE LET found == ScanCounts(ls, ScanLo(pos), ScanHi(pos, Len(ls)))
         IN  IF found # <<>>
             THEN [sm EXCEPT !.has_counts = TRUE,
                             !.vertex_count = found[1].vertex_count,
                             !.face_count = found[1].face_count]
             ELSE [sm EXCEPT !.has_counts = TRUE,
                             !.vertex_count = <<>>, !.face_count = <<>>]

\* StoreVertex with the bug of taking the vertex-count hint as a limit
StoreVertexUpToHint(sm, v) ==
    IF sm.vertex_count # <<>> /\ Len(sm.vertices) >= sm.vertex_count[1] THEN sm
    ELSE [sm EXCEPT !.vertices = Append(@, v)]

\* current_submesh["vertices"].append(v)
StoreVertex(sm, v) == [sm EXCEPT !.vertices = Append(@, v)]

\* FloatsOf with the bug of skipping the fields float() rejects instead of
\* giving up the row
FloatsOfSkippingBad(parts) ==
    LET good == SelectSeq(parts, LAMBDA x : FloatOf(x) # <<>>)
    IN  <<[k \in 1..Len(good) |-> FloatOf(good[k])[1]]>>

\* [float(x) for x in parts]: <<>> when some float(x) raises ValueError,
\* else <<the list>>
FloatsOf(parts) ==
    IF \E k \in 1..Len(parts) : FloatOf(parts[k]) = <<>> THEN <<>>
    ELSE <<[k \in 1..Len(parts) |-> FloatOf(parts[k])[1]]>>

\* [int(x) for x in parts]
IntsOf(parts) ==
    IF \E k \in 1..Len(parts) : IntOf(parts[k]) = <<>> THEN <<>>
    ELSE <<[k \in 1..Len(parts) |-> IntOf(parts[k])[1]]>>

RECURSIVE Dedupe(_)
\* list(dict.fromkeys(list)): first occurrences, in order
Dedupe(list) ==
    IF list = <<>> THEN <<>>
    ELSE LET init == Dedupe(SubSeq(list, 1, Len(list) - 1))
         IN  AddUnique(init, list[Len(list)])

\* the models rs returned earlier as their holders see them when the
\* parser's header dict is h, its vertex list v, its submesh list s and the
\* list self.textures was bound to at the latest return is t.  The version
\* is an int, held by value; line 189 binds self.textures to a new list at
\* each return, so only the latest returned model shares the list the loop
\* appends to.
Seen(rs, h, v, s, t) ==
    [k \in 1..Len(rs) |->
        [header |-> h, version |-> rs[k].version, vertices |-> v, submeshes |-> s,
         textures |-> IF k = Len(rs) THEN t ELSE rs[k].textures]]

(***************************************************************************)
(* Bounds                                                                  *)
(***************************************************************************)
\* parse calls made on one parser object
MaxCalls == 2

\* lines of an input file of the exporter's specification
ExportLines == 5

\* threads started on load_smf in one run of the viewer
MaxLoads == 2

\* submeshes of a model the viewer loads
MaxSubmeshes == 2

\* lines of an input file
MaxLines == 4

\* lines of an input file of the hint scan's specification
HintLines == 9

(***************************************************************************)
(* Actions                                                                 *)
(***************************************************************************)
\* SMFParser.__init__: the parser object as constructed, before any call,
\* with the file f at the path its caller is going to pass
Constructed(f) ==
    /\ file = f
    /\ pc = "idle"
    /\ calls = 0
    /\ lines = <<>>
    /\ i = 0
    /\ current_submesh = <<>>
    /\ vertices = <<>>
    /\ submeshes = <<>>
    /\ textures = <<>>
    /\ version = <<>>
    /\ header = <<>>
    /\ results = <<>>
    /\ returned = <<>>

\* the file is opened and read: lines 58-62
OpenAndRead ==
    /\ calls' = calls + 1
    /\ lines' = ReadLines(file)
    /\ i' = 0
    /\ current_submesh' = <<>>
    /\ pc' = "loop"
    /\ UNCHANGED <<file, vertices, submeshes, textures, version, header, results,
                   returned>>
    /\ UNCHANGED <<podvars, objvars, guivars>>

\* parse is called on the parser object just constructed
ParseOpen == pc = "idle" /\ OpenAndRead

\* parse is called again on a parser object whose previous call has returned
ParseAgain == pc = "done" /\ calls < MaxCalls /\ OpenAndRead

\* parse is called and open() or the read raises: nothing else has run
ParseOpenFails ==
    /\ pc = "idle"
    /\ calls' = calls + 1
    /\ pc' = "ioerror"
    /\ UNCHANGED <<file, lines, i, current_submesh, vertices, submeshes,
                   textures, version, header, results, returned>>
    /\ UNCHANGED <<podvars, objvars, guivars>>

\* one iteration of the while loop, lines 64-180, on the line at position i
ParseLine ==
    /\ pc = "loop"
    /\ i < Len(lines)
    /\ LET line == lines[i + 1]
           parts == Split(line, ",")
           tex == CleanTex(line)
           hinted == IF current_submesh # <<>>
                     THEN <<WithCounts(current_submesh[1], lines, i)>>
                     ELSE <<>>
           v == FloatsOf(parts)
           f == IntsOf(parts)
       IN  IF IsHeader(line)
           THEN /\ header' = <<"C3DModel">>
                /\ i' = i + 1
                /\ UNCHANGED <<pc, current_submesh, vertices, submeshes, textures, version>>
           ELSE IF IsVersionLine(version, line)
           THEN /\ version' = IntOf(line)
                /\ i' = i + 1
                /\ UNCHANGED <<pc, current_submesh, vertices, submeshes, textures, header>>
           ELSE IF IsSubmeshStart(line)
           THEN /\ submeshes' = submeshes \o current_submesh
                /\ current_submesh' = <<NewSubmesh(line)>>
                /\ i' = i + 1
                /\ UNCHANGED <<pc, vertices, textures, version, header>>
           ELSE IF IsVertexMarker(line)
           THEN /\ i' = i + 1
                /\ UNCHANGED <<pc, current_submesh, vertices, submeshes, textures,
                               version, header>>
           ELSE IF IsTextureRef(line)
           THEN /\ IF current_submesh # <<>>
                   THEN IF RecordsTexture(current_submesh[1], tex)
                        THEN /\ current_submesh' =
                                  <<[current_submesh[1] EXCEPT
                                       !.textures = AddUnique(@, tex)]>>
                             /\ textures' = AddUnique(textures, tex)
                        ELSE UNCHANGED <<current_submesh, textures>>
                   ELSE /\ textures' = IF tex # <<>> THEN AddUnique(textures, tex)
                                       ELSE textures
                        /\ UNCHANGED current_submesh
                /\ i' = i + 1
                /\ UNCHANGED <<pc, vertices, submeshes, version, header>>
           ELSE IF Len(parts) = 8
           THEN IF v # <<>> /\ current_submesh = <<>>
                THEN \* None["vertices"]: TypeError, which except ValueError
                     \* does not catch; parse raises
                     /\ pc' = "raised"
                     /\ UNCHANGED <<i, current_submesh, vertices, submeshes,
                                    textures, version, header>>
                ELSE /\ IF v # <<>>
                        THEN /\ current_submesh' = <<StoreVertex(hinted[1], v[1])>>
                             /\ vertices' = Append(vertices, v[1])
                        ELSE /\ current_submesh' = hinted
                             /\ UNCHANGED vertices
                     /\ i' = i + 1
                     /\ UNCHANGED <<pc, submeshes, textures, version, header>>
           ELSE IF Len(parts) = 3
           THEN /\ current_submesh' =
                     IF f # <<>> /\ current_submesh # <<>>
                     THEN <<[hinted[1] EXCEPT !.faces = Append(@, f[1])]>>
                     ELSE hinted
                /\ i' = i + 1
                /\ UNCHANGED <<pc, vertices, submeshes, textures, version, header>>
           ELSE /\ current_submesh' = hinted
                /\ i' = i + 1
                /\ UNCHANGED <<pc, vertices, submeshes, textures, version, header>>
    /\ returned' = Seen(returned, header', vertices', submeshes', textures')
    /\ UNCHANGED <<file, calls, lines, results>>
    /\ UNCHANGED <<podvars, objvars, guivars>>

\* the loop has ended: lines 182-198 close the final submesh, deduplicate
\* the texture lists and return the model
ParseReturn ==
    /\ pc = "loop"
    /\ i >= Len(lines)
    /\ LET all == submeshes \o current_submesh
       IN  submeshes' = [k \in 1..Len(all) |->
                            [all[k] EXCEPT !.textures = Dedupe(@)]]
    /\ textures' = Dedupe(textures)
    /\ results' = Append(results,
                         [header |-> header, version |-> version,
                          vertices |-> vertices, submeshes |-> submeshes',
                          textures |-> textures'])
    /\ returned' = Append(Seen(returned, header, vertices, submeshes', textures),
                           [header |-> header, version |-> version,
                            vertices |-> vertices, submeshes |-> submeshes',
                            textures |-> textures'])
    /\ pc' = "done"
    /\ UNCHANGED <<file, calls, lines, i, current_submesh, vertices, version, header>>
    /\ UNCHANGED <<podvars, objvars, guivars>>

Next == ParseOpen \/ ParseOpenFails \/ ParseLine \/ ParseReturn

(***************************************************************************)
(* extract_smfs_from_pod                                                   *)
(***************************************************************************)
\* str.strip(c) and bytes.strip(c) for one character c: leading and
\* trailing occurrences removed
StripCh(s, c) ==
    LET keep == {k \in 1..Len(s) : s[k] # c}
    IN  IF keep = {} THEN <<>>
        ELSE SubSeq(s, CHOOSE a \in keep : \A b \in keep : a <= b,
                       CHOOSE a \in keep : \A b \in keep : a >= b)

RECURSIVE DecimalOf(_)
\* the decimal digits of a natural number
DecimalOf(n) ==
    IF n < 10 THEN <<DecDigits[n + 1]>>
    ELSE DecimalOf(n \div 10) \o <<DecDigits[(n % 10) + 1]>>

RECURSIVE ZeroPad(_, _)
\* the format 0{w}d applied to the digits ds
ZeroPad(ds, w) == IF Len(ds) >= w THEN ds ELSE ZeroPad(<<"0">> \o ds, w)

\* f"smf_{smf_count:04d}.smf"
SmfName(n) == <<"s","m","f","_">> \o ZeroPad(DecimalOf(n), 4) \o <<".","s","m","f">>

\* stripped == b"C3DModel"
IsStartToken(stripped) == stripped = <<"C","3","D","M","o","d","e","l">>

\* b"_bump.TIF" in stripped
IsBumpLine(stripped) == Contains(stripped, <<"_","b","u","m","p",".","T","I","F">>)

\* whether stripped.decode("utf-8") succeeds
Decodes(stripped) == \A k \in 1..Len(stripped) : stripped[k] # "xFF"

\* f"{model_name}.smf" with model_name the text before the first underscore
\* of the decoded line, its leading and trailing double quotes removed
NewName(stripped) == Split(StripCh(stripped, "\""), "_")[1] \o <<".","s","m","f">>

\* WantsRename with the bug of renaming a file only while it has the name
\* it was created under
WantsRenameOnce(new_path, cur_path) ==
    new_path # cur_path /\ StartsWith(cur_path, <<"s","m","f","_">>)

\* new_path != current_path
WantsRename(new_path, cur_path) == new_path # cur_path

\* the directory dir with the file name created empty, or truncated
Created(dir, name) == [n \in DOMAIN dir \cup {name} |-> IF n = name THEN <<>> ELSE dir[n]]

\* the directory dir after os.rename(old, new): the file is under its new
\* name, in the place of a file that had that name
Renamed(dir, old, new) ==
    [n \in (DOMAIN dir \ {old}) \cup {new} |-> IF n = new THEN dir[old] ELSE dir[n]]

\* no extraction is running and the output directory is empty
NoExtraction ==
    /\ pod_file = <<>>
    /\ ppc = "none"
    /\ pod_read = 0
    /\ smf_count = 0
    /\ current_file = "none"
    /\ current_path = <<>>
    /\ output_dir = << >>

\* no parser object exists
NoParser ==
    /\ file = <<>>
    /\ pc = "none"
    /\ calls = 0
    /\ lines = <<>>
    /\ i = 0
    /\ current_submesh = <<>>
    /\ vertices = <<>>
    /\ submeshes = <<>>
    /\ textures = <<>>
    /\ version = <<>>
    /\ header = <<>>
    /\ results = <<>>
    /\ returned = <<>>

\* extract_smfs_from_pod is called on the .POD file f with an empty output
\* directory
Called(f) ==
    /\ pod_file = f
    /\ ppc = "called"
    /\ pod_read = 0
    /\ smf_count = 0
    /\ current_file = "none"
    /\ current_path = <<>>
    /\ output_dir = << >>

\* lines 20-31: the locals are set and the .POD file is opened
PodOpen ==
    /\ ppc = "called"
    /\ smf_count' = 0
    /\ current_file' = "none"
    /\ current_path' = <<>>
    /\ ppc' = "loop"
    /\ UNCHANGED <<pod_file, pod_read, output_dir>>
    /\ UNCHANGED <<smfvars, objvars, guivars>>

\* one iteration of the for loop, lines 32-67, on the next raw line.  The
\* rename of line 59 succeeds or raises (the target exists on a system that
\* refuses to replace it, or cannot be created): both outcomes are taken.
PodLine ==
    /\ ppc = "loop"
    /\ pod_read < Len(pod_file)
    /\ LET raw_line == pod_file[pod_read + 1]
           stripped == Strip(raw_line)
           starts == IsStartToken(stripped)
           \* after lines 36-45
           count1 == IF starts /\ current_file # "none" THEN smf_count + 1 ELSE smf_count
           path1 == IF starts THEN <<SmfName(count1)>> ELSE current_path
           file1 == IF starts THEN "open" ELSE current_file
           dir1 == IF starts THEN Created(output_dir, path1[1]) ELSE output_dir
           \* after line 48
           dir2 == [dir1 EXCEPT ![path1[1]] = Append(@, raw_line)]
           new_path == NewName(stripped)
       IN  /\ smf_count' = count1
           /\ IF file1 = "none"
              THEN /\ ppc' = "loop"
                   /\ UNCHANGED <<current_file, current_path, output_dir>>
              ELSE IF file1 = "closed"
              THEN \* write on a closed file: ValueError, outside the try
                   /\ ppc' = "raised"
                   /\ current_file' = file1
                   /\ current_path' = path1
                   /\ output_dir' = dir1
              ELSE IF IsBumpLine(stripped) /\ Decodes(stripped)
                      /\ WantsRename(new_path, path1[1])
              THEN /\ ppc' = "loop"
                   /\ \/ /\ output_dir' = Renamed(dir2, path1[1], new_path)
                         /\ current_path' = <<new_path>>
                         /\ current_file' = "open"
                      \/ /\ output_dir' = dir2
                         /\ current_path' = path1
                         /\ current_file' = "closed"
              ELSE /\ ppc' = "loop"
                   /\ output_dir' = dir2
                   /\ current_path' = path1
                   /\ current_file' = file1
    /\ pod_read' = pod_read + 1
    /\ UNCHANGED pod_file
    /\ UNCHANGED <<smfvars, objvars, guivars>>

\* the for loop has ended: lines 69-75
PodFinish ==
    /\ ppc = "loop"
    /\ pod_read = Len(pod_file)
    /\ smf_count' = IF current_file # "none" THEN smf_count + 1 ELSE smf_count
    /\ current_file' = IF current_file # "none" THEN "closed" ELSE "none"
    /\ ppc' = "done"
    /\ UNCHANGED <<pod_file, pod_read, current_path, output_dir>>
    /\ UNCHANGED <<smfvars, objvars, guivars>>

NextPod == PodOpen \/ PodLine \/ PodFinish

NextReuse == ParseOpen \/ ParseAgain \/ ParseOpenFails \/ ParseLine \/ ParseReturn

(***************************************************************************)
(* export_to_obj                                                           *)
(***************************************************************************)
RECURSIVE Pow10(_)
Pow10(n) == IF n = 0 THEN 1 ELSE 10 * Pow10(n - 1)

\* 1.0 - x for a float x
OneMinus(x) ==
    IF x.k = "nan" THEN x
    ELSE IF x.k = "inf" THEN [x EXCEPT !.m = 0 - x.m]
    ELSE LET nm == IF x.e >= 0 THEN Normal(1 - x.m * Pow10(x.e), 0)
                   ELSE Normal(Pow10(0 - x.e) - x.m, x.e)
         IN  [k |-> "num", m |-> nm[1], e |-> nm[2]]

\* a line written to the .OBJ file: its kind ("#", "o", "v", "vt", "f" or
\* "" for an empty line), the name it holds and the numbers it holds
Written(kind, name, numbers) == [t |-> kind, name |-> name, xs |-> numbers]

\* f"v {v[0]} {v[1]} {v[2]}" for each vertex
PositionLines(verts) ==
    [k \in 1..Len(verts) |-> Written("v", <<>>, <<verts[k][1], verts[k][2], verts[k][3]>>)]

\* f"vt {v[6]} {1.0 - v[7]}" for each vertex
UvLines(verts) ==
    [k \in 1..Len(verts) |-> Written("vt", <<>>, <<verts[k][7], OneMinus(verts[k][8])>>)]

\* FaceIndices with the bug of leaving out the offset
FaceIndicesWithoutOffset(face, off) == [k \in 1..Len(face) |-> face[k] + 1]

\* [vi + 1 + vertex_offset for vi in face]
FaceIndices(face, off) == [k \in 1..Len(face) |-> face[k] + 1 + off]

\* f"f {i1}/{i1} {i2}/{i2} {i3}/{i3}" for each face; the list comprehension
\* over three ints cannot raise, so the except of line 59 never runs
FaceLines(faces, off) ==
    [k \in 1..Len(faces) |-> Written("f", <<>>, FaceIndices(faces[k], off))]

\* the model parser.parse returned to export_to_obj
ExportedModel == returned[Len(returned)]

\* export_to_obj has not been called
NoExport ==
    /\ epc = "none"
    /\ sm_index = 0
    /\ vertex_offset = 0
    /\ obj_file = <<>>

\* export_to_obj is called: line 26 constructs a parser for the file f
ExportCalled(f) ==
    /\ Constructed(f)
    /\ epc = "parsing"
    /\ sm_index = 0
    /\ vertex_offset = 0
    /\ obj_file = <<>>

\* parser.parse raised at line 27: export_to_obj has no handler
ExportParseRaised ==
    /\ epc = "parsing"
    /\ pc \in {"raised", "ioerror"}
    /\ epc' = "raised"
    /\ UNCHANGED <<sm_index, vertex_offset, obj_file>>
    /\ UNCHANGED <<smfvars, podvars, guivars>>

\* parser.parse returned: lines 29-33 open the .OBJ file and write its two
\* comment lines and an empty line
ExportOpen ==
    /\ epc = "parsing"
    /\ pc = "done"
    /\ obj_file' = <<Written("#", <<>>, <<>>), Written("#", <<>>, <<>>),
                     Written("", <<>>, <<>>)>>
    /\ vertex_offset' = 0
    /\ sm_index' = 0
    /\ epc' = "loop"
    /\ UNCHANGED <<smfvars, podvars, guivars>>

\* one iteration of the for loop, lines 35-63.  np.array of an empty list
\* has the shape (0,): verts.shape[1] at line 47 raises IndexError, after
\* the o line has been written; np.array of n vertices has the shape (n, 8)
ExportSubmesh ==
    /\ epc = "loop"
    /\ sm_index < Len(ExportedModel.submeshes)
    /\ LET sm == ExportedModel.submeshes[sm_index + 1]
           verts == sm.vertices
           group == <<Written("o", sm.name, <<>>)>> \o PositionLines(verts)
       IN  IF Len(verts) = 0
           THEN /\ obj_file' = obj_file \o group
                /\ epc' = "raised"
                /\ UNCHANGED <<sm_index, vertex_offset>>
           ELSE /\ obj_file' = obj_file \o group \o UvLines(verts)
                                 \o FaceLines(sm.faces, vertex_offset)
                                 \o <<Written("", <<>>, <<>>)>>
                /\ vertex_offset' = vertex_offset + Len(verts)
                /\ sm_index' = sm_index + 1
                /\ epc' = "loop"
    /\ UNCHANGED <<smfvars, podvars, guivars>>

\* the for loop has ended: the .OBJ file is closed and line 65 reports
ExportClose ==
    /\ epc = "loop"
    /\ sm_index = Len(ExportedModel.submeshes)
    /\ epc' = "done"
    /\ UNCHANGED <<sm_index, vertex_offset, obj_file>>
    /\ UNCHANGED <<smfvars, podvars, guivars>>

NextExport ==
    \/ ParseOpen \/ ParseOpenFails \/ ParseLine \/ ParseReturn
    \/ ExportParseRaised \/ ExportOpen \/ ExportSubmesh \/ ExportClose

(***************************************************************************)
(* SMFViewer: the event loop (run), the threads it starts on load_smf and  *)
(* the thread of draw_model_incremental.  The threads share the viewer's   *)
(* attributes without any lock; a step is one read or one write of a       *)
(* shared attribute, since the interpreter can switch threads between any  *)
(* two of them.  The camera, the overlay and the drawing of a frame, which *)
(* reads model_data and draw_index and writes neither, are left out.       *)
(***************************************************************************)
\* the files the dialog can return, each by what load_smf meets on it:
\* whether parser.parse returns (parses), the number of submeshes of the
\* model (n) and whether lines 109-118 complete (measures: np.concatenate
\* raises for a model without submeshes, and the slicing that follows for
\* one with a submesh without vertices)
ViewerFiles ==
    {[parses |-> FALSE, n |-> 0, measures |-> FALSE]} \cup
    {[parses |-> TRUE, n |-> k, measures |-> FALSE] : k \in 0..MaxSubmeshes} \cup
    {[parses |-> TRUE, n |-> k, measures |-> TRUE] : k \in 1..MaxSubmeshes}

\* there is no viewer
NoViewer ==
    /\ running = "none"
    /\ model_data = <<>>
    /\ last_loaded_path = <<>>
    /\ drawing = FALSE
    /\ paused = FALSE
    /\ draw_index = 0
    /\ loads = <<>>
    /\ bg_pc = "none"
    /\ bg_index = 0

\* SMFViewer.__init__ has returned and run has entered its loop: the thread
\* of draw_model_incremental is started, no load_smf thread is
ViewerStarted ==
    /\ running = "yes"
    /\ model_data = <<>>
    /\ last_loaded_path = <<>>
    /\ drawing = FALSE
    /\ paused = FALSE
    /\ draw_index = 0
    /\ loads = [l \in 1..MaxLoads |-> [pc |-> "idle", path |-> <<>>]]
    /\ bg_pc = "drawing"
    /\ bg_index = 0

\* run, lines 200-203: SPACE
KeySpace ==
    /\ running = "yes"
    /\ paused' = ~paused
    /\ UNCHANGED <<running, model_data, last_loaded_path, drawing, draw_index, loads,
                   bg_pc, bg_index>>
    /\ UNCHANGED <<smfvars, podvars, objvars>>

\* run, lines 196-197 and 205-206: the Open button or the key O starts a
\* thread on load_smf
KeyOpen ==
    /\ running = "yes"
    /\ \E l \in 1..MaxLoads :
          /\ loads[l].pc = "idle"
          /\ \A k \in 1..(l - 1) : loads[k].pc # "idle"
          /\ loads' = [loads EXCEPT ![l].pc = "dialog"]
    /\ UNCHANGED <<running, model_data, last_loaded_path, drawing, paused, draw_index,
                   bg_pc, bg_index>>
    /\ UNCHANGED <<smfvars, podvars, objvars>>

\* run, lines 176-177 and 192-193: the loop ends and the process exits,
\* which ends the daemon threads
Quit ==
    /\ running = "yes"
    /\ running' = "no"
    /\ UNCHANGED <<model_data, last_loaded_path, drawing, paused, draw_index, loads,
                   bg_pc, bg_index>>
    /\ UNCHANGED <<smfvars, podvars, objvars>>

\* what a step of a load_smf thread leaves alone besides what it names
LoadFrame ==
    /\ UNCHANGED <<running, paused, bg_pc, bg_index>>
    /\ UNCHANGED <<smfvars, podvars, objvars>>

\* load_smf, lines 94-104: the dialog returns no path, and load_smf
\* returns, or a path, which is stored
LoadDialog(l) ==
    /\ running = "yes"
    /\ loads[l].pc = "dialog"
    /\ \/ /\ loads' = [loads EXCEPT ![l].pc = "cancelled"]
          /\ UNCHANGED last_loaded_path
       \/ \E f \in ViewerFiles :
             /\ loads' = [loads EXCEPT ![l] = [pc |-> "parse", path |-> <<f>>]]
             /\ last_loaded_path' = <<f>>
    /\ UNCHANGED <<model_data, drawing, draw_index>>
    /\ LoadFrame

\* load_smf, lines 105-106: parse raises, which ends the thread, or returns
\* the model that is stored in self.model_data
LoadParse(l) ==
    /\ running = "yes"
    /\ loads[l].pc = "parse"
    /\ IF loads[l].path[1].parses
       THEN /\ model_data' = <<[n |-> loads[l].path[1].n]>>
            /\ loads' = [loads EXCEPT ![l].pc = "measure"]
       ELSE /\ loads' = [loads EXCEPT ![l] = [pc |-> "raised", path |-> <<>>]]
            /\ UNCHANGED model_data
    /\ UNCHANGED <<last_loaded_path, drawing, draw_index>>
    /\ LoadFrame

\* load_smf, lines 109-118: the summary and the metrics of the model, which
\* raise for a model whose vertex arrays cannot be concatenated and sliced
LoadMeasure(l) ==
    /\ running = "yes"
    /\ loads[l].pc = "measure"
    /\ loads' = IF loads[l].path[1].measures
                THEN [loads EXCEPT ![l].pc = "set_drawing"]
                ELSE [loads EXCEPT ![l] = [pc |-> "raised", path |-> <<>>]]
    /\ UNCHANGED <<model_data, last_loaded_path, drawing, draw_index>>
    /\ LoadFrame

\* load_smf, line 120: self.drawing = True
LoadSetDrawing(l) ==
    /\ running = "yes"
    /\ loads[l].pc = "set_drawing"
    /\ drawing' = TRUE
    /\ loads' = [loads EXCEPT ![l].pc = "set_index"]
    /\ UNCHANGED <<model_data, last_loaded_path, draw_index>>
    /\ LoadFrame

\* load_smf, line 121: self.draw_index = 0, and load_smf returns
LoadSetIndex(l) ==
    /\ running = "yes"
    /\ loads[l].pc = "set_index"
    /\ draw_index' = 0
    /\ loads' = [loads EXCEPT ![l] = [pc |-> "loaded", path |-> <<>>]]
    /\ UNCHANGED <<model_data, last_loaded_path, drawing>>
    /\ LoadFrame

\* a step of the thread of draw_model_incremental from the position from to
\* the position to, which leaves the rest alone
BgStep(from, to) ==
    /\ running = "yes"
    /\ bg_pc = from
    /\ bg_pc' = to
    /\ UNCHANGED <<running, model_data, last_loaded_path, paused, loads>>
    /\ UNCHANGED <<smfvars, podvars, objvars>>

\* line 128: self.drawing is read
BgReadDrawing ==
    /\ BgStep("drawing", IF drawing THEN "paused" ELSE "sleep")
    /\ UNCHANGED <<drawing, draw_index, bg_index>>

\* line 128: self.paused is read
BgReadPaused ==
    /\ BgStep("paused", IF paused THEN "sleep" ELSE "model")
    /\ UNCHANGED <<drawing, draw_index, bg_index>>

\* line 128: self.model_data is read
BgReadModel ==
    /\ BgStep("model", IF model_data # <<>> THEN "index" ELSE "sleep")
    /\ UNCHANGED <<drawing, draw_index, bg_index>>

\* line 129: self.draw_index is read
BgReadIndex ==
    /\ BgStep("index", "length")
    /\ bg_index' = draw_index
    /\ UNCHANGED <<drawing, draw_index>>

\* line 129: the value read is compared with len(self.model_data["submeshes"])
BgCompare ==
    /\ BgStep("length", IF bg_index < model_data[1].n THEN "load" ELSE "clear")
    /\ UNCHANGED <<drawing, draw_index, bg_index>>

\* line 130, self.draw_index += 1: the attribute is read
BgLoadIndex ==
    /\ BgStep("load", "store")
    /\ bg_index' = draw_index
    /\ UNCHANGED <<drawing, draw_index>>

\* line 130, self.draw_index += 1: the sum is stored
BgStoreIndex ==
    /\ BgStep("store", "sleep")
    /\ draw_index' = bg_index + 1
    /\ UNCHANGED <<drawing, bg_index>>

\* line 132: self.drawing = False
BgClearDrawing ==
    /\ BgStep("clear", "sleep")
    /\ drawing' = FALSE
    /\ UNCHANGED <<draw_index, bg_index>>

\* line 133: time.sleep(0.1) returns and the loop starts over
BgSleep ==
    /\ BgStep("sleep", "drawing")
    /\ UNCHANGED <<drawing, draw_index, bg_index>>

NextViewer ==
    \/ KeySpace \/ KeyOpen \/ Quit
    \/ \E l \in 1..MaxLoads :
          \/ LoadDialog(l) \/ LoadParse(l) \/ LoadMeasure(l)
          \/ LoadSetDrawing(l) \/ LoadSetIndex(l)
    \/ BgReadDrawing \/ BgReadPaused \/ BgReadModel \/ BgReadIndex \/ BgCompare
    \/ BgLoadIndex \/ BgStoreIndex \/ BgClearDrawing \/ BgSleep

(***************************************************************************)
(* Input files                                                             *)
(***************************************************************************)
\* the line C3DModel
LnHeader == <<"C","3","D","M","o","d","e","l">>

\* the line 1
LnOne == <<"1">>

\* the line 2
LnTwo == <<"2">>

\* the line made of the one character U+00B2
LnSup == <<"sup2">>

\* the line Body
LnBody == <<"B","o","d","y">>

\* the line Wheel
LnWheel == <<"W","h","e","e","l">>

\* the line 10,5,20,4
LnCounts == <<"1","0",",","5",",","2","0",",","4">>

\* the line 1.0,2.0,3.0,0,0,1,0.1,0.2
LnVertexA == <<"1",".","0",",","2",".","0",",","3",".","0",",","0",",","0",",","1",",","0",".","1",",","0",".","2">>

\* the line 4,5,6,0,0,1,0.5,0.5
LnVertexB == <<"4",",","5",",","6",",","0",",","0",",","1",",","0",".","5",",","0",".","5">>

\* the line 1,2,x,0,0,1,0,0
LnVertexBad == <<"1",",","2",",","x",",","0",",","0",",","1",",","0",",","0">>

\* the line 0,1,2
LnFaceA == <<"0",",","1",",","2">>

\* the line 1,2,3,4,5,6,7
LnSeven == <<"1",",","2",",","3",",","4",",","5",",","6",",","7">>

\* the line 1,2,3,4,5,6,7,8,9
LnNine == <<"1",",","2",",","3",",","4",",","5",",","6",",","7",",","8",",","9">>

\* a line holding one space
LnBlank == <<" ">>

\* the line v1
LnMarker == <<"v","1">>

\* the line "GMCJimmy_bump.TIF", with its quotes
LnTexQuoted == <<"\"","G","M","C","J","i","m","m","y","_","b","u","m","p",".","T","I","F","\"">>

\* the line Viper.TIF
LnTexViper == <<"V","i","p","e","r",".","T","I","F">>

\* the line door.tif
LnTexLower == <<"d","o","o","r",".","t","i","f">>

\* the line 3,0,4,"hood.TIF"
LnTexComma == <<"3",",","0",",","4",",","\"","h","o","o","d",".","T","I","F","\"">>

\* the line x.TIF, whose cleaned texture name is empty
LnTexEmpty == <<"x",".","T","I","F",",">>

\* the line 0,1,a.TIF
LnTexFace == <<"0",",","1",",","a",".","T","I","F">>

\* the line hood.TIF,3
LnTexThenField == <<"h","o","o","d",".","T","I","F",",","3">>

\* the line " Door.Tif ", with its quotes and the spaces inside them
LnTexPadded == <<"\"", " ", "D","o","o","r",".","T","i","f", " ", "\"">>

\* the line 1,0,1,0
LnCountsOne == <<"1",",","0",",","1",",","0">>

\* the raw line Wheel_bump.TIF
LnBumpWheel == <<"W","h","e","e","l","_","b","u","m","p",".","T","I","F">>

\* the raw line of the byte 0xFF followed by _bump.TIF
LnBumpUndecodable == <<"xFF","_","b","u","m","p",".","T","I","F">>

\* every sequence of at most n elements of S
SeqsUpTo(S, n) == UNION {[1..k -> S] : k \in 0..n}

\* a caller constructs a parser to parse a file of at most MaxLines lines of S
InitWith(S) == NoExtraction /\ NoExport /\ NoViewer /\ \E f \in SeqsUpTo(S, MaxLines) : Constructed(f)

(***************************************************************************)
(* Specifications.  Every caller in the repository constructs a parser and *)
(* calls parse on it once: Next.  NextReuse adds a caller that calls parse *)
(* again on the same object.  The specifications differ in the lines their *)
(* input files are made of.                                                *)
(***************************************************************************)
GeomLines == {LnHeader, LnBody, LnWheel, LnVertexA, LnVertexB, LnFaceA, LnBlank}

Init == InitWith(GeomLines)

Spec == Init /\ [][Next]_vars

RowLines == {LnBody, LnVertexA, LnVertexBad, LnSeven, LnNine, LnFaceA, LnCounts}

InitRows == InitWith(RowLines)

SpecRows == InitRows /\ [][Next]_vars

TexLines == {LnBody, LnWheel, LnVertexB, LnTexQuoted, LnTexViper, LnTexLower, LnTexEmpty}

InitTex == InitWith(TexLines)

SpecTex == InitTex /\ [][Next]_vars

VerLines == {LnHeader, LnOne, LnTwo, LnSup, LnBody, LnFaceA}

InitVer == InitWith(VerLines)

SpecVer == InitVer /\ [][Next]_vars

ClassLines == {LnHeader, LnOne, LnTwo, LnBody, LnTexViper, LnTexFace, LnFaceA}

InitClass == InitWith(ClassLines)

SpecClass == InitClass /\ [][Next]_vars

NameLines == {LnBody, LnVertexB, LnTexQuoted, LnTexLower, LnTexComma, LnTexThenField,
              LnTexPadded}

InitName == InitWith(NameLines)

SpecName == InitName /\ [][Next]_vars

AdvisoryLines == {LnBody, LnCountsOne, LnCounts, LnVertexA, LnVertexB, LnFaceA}

InitAdvisory == InitWith(AdvisoryLines)

SpecAdvisory == InitAdvisory /\ [][Next]_vars

PodLines == {LnHeader, LnTexQuoted, LnBumpWheel, LnBumpUndecodable, LnVertexB}

InitPod == NoParser /\ NoExport /\ NoViewer /\ \E f \in SeqsUpTo(PodLines, MaxLines) : Called(f)

SpecPod == InitPod /\ [][NextPod]_vars

ObjLines == {LnBody, LnWheel, LnVertexB, LnFaceA}

InitExport == NoExtraction /\ NoViewer /\ \E f \in SeqsUpTo(ObjLines, ExportLines) : ExportCalled(f)

SpecExport == InitExport /\ [][NextExport]_vars

InitViewer == NoParser /\ NoExtraction /\ NoExport /\ ViewerStarted

SpecViewer == InitViewer /\ [][NextViewer]_vars

\* files of HintLines lines: marker lines v1 with, at positions of any choice,
\* one submesh-start line and at most one each of the face row 0,1,2, the
\* 4-field row 10,5,20,4 and the texture line 3,0,4,"hood.TIF"
HintFiles ==
    {[k \in 1..HintLines |->
         IF k = pn THEN LnBody
         ELSE IF k = pf THEN LnFaceA
         ELSE IF k = pa THEN LnCounts
         ELSE IF k = pb THEN LnTexComma
         ELSE LnMarker] :
     pn \in 1..HintLines, pf \in 1..HintLines, pa \in 0..HintLines, pb \in 0..HintLines}

InitHint == NoExtraction /\ NoExport /\ NoViewer /\ \E f \in HintFiles : Constructed(f)

SpecHint == InitHint /\ [][Next]_vars

\* scenario A of the specification's testable properties
ScenarioA == <<LnHeader, LnOne, LnBody, LnCounts, LnVertexA, LnFaceA>>

\* the lines of ls at the positions in keep, in order
Pick(ls, keep) == LET idx == SelectSeq([k \in 1..Len(ls) |-> k], LAMBDA k : k \in keep)
                  IN  [k \in 1..Len(idx) |-> ls[idx[k]]]

\* scenario A and every file made of some of its lines, in their order
InitScenarioA ==
    NoExtraction /\ NoExport /\ NoViewer /\ \E keep \in SUBSET (1..Len(ScenarioA)) : Constructed(Pick(ScenarioA, keep))

SpecScenarioA == InitScenarioA /\ [][Next]_vars

ReuseLines == {LnBody, LnVertexB, LnTexQuoted, LnOne, LnFaceA}

InitReuse == InitWith(ReuseLines)

SpecReuse == InitReuse /\ [][NextReuse]_vars

(***************************************************************************)
(* What the claims speak of                                                *)
(***************************************************************************)
\* the first parse call on the parser object has returned
Returned == pc = "done" /\ calls = 1

\* the 1-based positions of the submesh-start lines of ls, in order
StartsOf(ls) == SelectSeq([k \in 1..Len(ls) |-> k], LAMBDA k : IsAlpha(ls[k]))

\* the lines after the j-th submesh-start line up to the next one
BlockOf(ls, j) ==
    LET st == StartsOf(ls)
    IN  SubSeq(ls, st[j] + 1, IF j < Len(st) THEN st[j + 1] - 1 ELSE Len(ls))

\* a line that is split on commas: no earlier branch of the loop takes it
IsCsvRow(ver, line) ==
    /\ ~IsHeader(line)
    /\ ~(ver = <<>> /\ IsDigit(line))
    /\ ~IsAlpha(line)
    /\ ~StartsWith(Lower(line), <<"v">>)
    /\ ~Contains(Upper(line), <<".","T","I","F">>)

\* an 8-field row whose fields all parse as numbers
IsNumericRow8(line) ==
    LET p == Split(line, ",")
    IN  Len(p) = 8 /\ \A k \in 1..8 : FloatOf(p[k]) # <<>>

\* an accepted vertex row, and the vertex it stores
IsVertexRow(line) == IsCsvRow(<<0>>, line) /\ IsNumericRow8(line)

VertexOf(line) == [k \in 1..8 |-> FloatOf(Split(line, ",")[k])[1]]

\* an accepted face row, and the face it stores
IsFaceRow(line) ==
    LET p == Split(line, ",")
    IN  IsCsvRow(<<0>>, line) /\ Len(p) = 3 /\ \A k \in 1..3 : IntOf(p[k]) # <<>>

FaceOf(line) == [k \in 1..3 |-> IntOf(Split(line, ",")[k])[1]]

\* F applied to the elements of ls that satisfy Test, in order
MapFilter(ls, Test(_), F(_)) ==
    LET sel == SelectSeq(ls, Test)
    IN  [k \in 1..Len(sel) |-> F(sel[k])]

(***************************************************************************)
(* C1  parse never raises because of a single line: whatever the lines of  *)
(* a readable input, the loop ends and parse returns.  Stated as: the      *)
(* parser is never in the state "raised".                                  *)
(***************************************************************************)
C1_NoLineMakesParseRaise == pc # "raised"

(***************************************************************************)
(* C2  for an input without submesh-start line, parse returns a model      *)
(* whose submesh list is empty and whose global vertex list holds, in      *)
(* input order, every 8-field row whose fields all parse as numbers.       *)
(***************************************************************************)
C2_NoSubmeshKeepsEveryVertexRow ==
    (calls = 1 /\ pc \in {"done", "raised"} /\ StartsOf(lines) = <<>>) =>
        /\ pc = "done"
        /\ results[1].submeshes = <<>>
        /\ results[1].vertices = MapFilter(lines, IsNumericRow8, VertexOf)

(***************************************************************************)
(* C8  the returned submesh list has one entry per submesh-start line, in  *)
(* input order, and the vertex and face lists of each entry hold exactly   *)
(* the accepted vertex and face rows between its start line and the next   *)
(* start line (or the end of input), in order.                             *)
(***************************************************************************)
C8_OneSubmeshPerStartLine ==
    Returned =>
        LET st == StartsOf(lines)
            sms == results[1].submeshes
        IN  /\ Len(sms) = Len(st)
            /\ \A j \in 1..Len(st) :
                  /\ sms[j].name = lines[st[j]]
                  /\ sms[j].vertices = MapFilter(BlockOf(lines, j), IsVertexRow, VertexOf)
                  /\ sms[j].faces = MapFilter(BlockOf(lines, j), IsFaceRow, FaceOf)

\* two submeshes were returned, each with a vertex of its own
C8_Witness ==
    /\ Returned
    /\ Len(results[1].submeshes) = 2
    /\ Len(results[1].submeshes[1].vertices) = 1
    /\ Len(results[1].submeshes[2].vertices) = 1
    /\ results[1].submeshes[1].vertices # results[1].submeshes[2].vertices

\* the loop is about to split the line at position i on commas
AtCsvRow == pc = "loop" /\ i < Len(lines) /\ IsCsvRow(version, lines[i + 1])

\* the vertex and face lists are what they were
SameGeometry ==
    /\ vertices' = vertices
    /\ submeshes' = submeshes
    /\ (current_submesh = <<>>) = (current_submesh' = <<>>)
    /\ current_submesh # <<>> =>
          /\ current_submesh'[1].vertices = current_submesh[1].vertices
          /\ current_submesh'[1].faces = current_submesh[1].faces

(***************************************************************************)
(* C9  with a submesh open, an 8-field row with a non-numeric field leaves *)
(* the submesh's and the model's vertex lists as they were and the loop    *)
(* goes on to the next line; a row of 7 or 9 fields adds no vertex and no  *)
(* face.                                                                   *)
(***************************************************************************)
C9_BadRowIsDroppedWhole ==
    [][AtCsvRow =>
          LET n == Len(Split(lines[i + 1], ","))
          IN  /\ (current_submesh # <<>> /\ n = 8 /\ ~IsNumericRow8(lines[i + 1])) =>
                    SameGeometry /\ pc' = "loop" /\ i' = i + 1
              /\ n \in {7, 9} => SameGeometry /\ pc' = "loop" /\ i' = i + 1]_vars

\* an 8-field row with a non-numeric field has just been passed while the
\* open submesh held a vertex
C9_Witness ==
    /\ pc = "loop" /\ i >= 1
    /\ current_submesh # <<>>
    /\ Len(current_submesh[1].vertices) = 1
    /\ Len(Split(lines[i], ",")) = 8
    /\ ~IsNumericRow8(lines[i])

\* how often x occurs in list
Count(list, x) == Cardinality({k \in 1..Len(list) : list[k] = x})

\* the submesh-start lines among the first k lines of ls
StartsUpTo(ls, k) == {m \in 1..k : IsAlpha(ls[m])}

\* line k of ls names a texture, inside an open submesh that has no vertex yet
TexBeforeVertices(ls, k) ==
    /\ Contains(Upper(ls[k]), <<".","T","I","F">>)
    /\ CleanTex(ls[k]) # <<>>
    /\ StartsUpTo(ls, k) # {}
    /\ \A m \in 1..(k - 1) :
          IsVertexRow(ls[m]) => \E st \in StartsUpTo(ls, k) : m < st

(***************************************************************************)
(* C4  every line containing .TIF (in any letter case) that stands inside  *)
(* an open submesh before that submesh's first vertex row has its name     *)
(* exactly once in that submesh's texture list and exactly once in the     *)
(* model's texture list, whatever character the line starts with.          *)
(***************************************************************************)
C4_TextureBeforeVerticesRecordedOnce ==
    Returned =>
        \A k \in 1..Len(lines) :
            TexBeforeVertices(lines, k) =>
                /\ Count(results[1].submeshes[Cardinality(StartsUpTo(lines, k))].textures,
                         CleanTex(lines[k])) = 1
                /\ Count(results[1].textures, CleanTex(lines[k])) = 1

\* the loop is at a line that the texture branch takes
AtTextureRef ==
    /\ pc = "loop" /\ i < Len(lines)
    /\ ~IsHeader(lines[i + 1])
    /\ ~(version = <<>> /\ IsDigit(lines[i + 1]))
    /\ ~IsAlpha(lines[i + 1])
    /\ ~StartsWith(Lower(lines[i + 1]), <<"v">>)
    /\ Contains(Upper(lines[i + 1]), <<".","T","I","F">>)

(***************************************************************************)
(* C7  a texture-reference line met while the open submesh already holds a *)
(* vertex changes neither that submesh's texture list nor the model's; one *)
(* met while no submesh is open goes to the model's texture list only.     *)
(***************************************************************************)
C7_TextureAfterVerticesIgnored ==
    [][AtTextureRef =>
          LET tex == CleanTex(lines[i + 1])
          IN  /\ (current_submesh # <<>> /\ Len(current_submesh[1].vertices) >= 1) =>
                    /\ current_submesh' = current_submesh
                    /\ textures' = textures
                    /\ submeshes' = submeshes
              /\ current_submesh = <<>> =>
                    /\ current_submesh' = <<>>
                    /\ submeshes' = submeshes
                    /\ textures' = IF tex = <<>> \/ tex \in Range(textures)
                                   THEN textures ELSE Append(textures, tex)]_vars

\* a texture line met before any submesh is in the model's list, and a
\* texture line with a new name has just been passed while the open submesh
\* held a vertex: its name is in no list
C7_Witness ==
    /\ pc = "loop" /\ i >= 3
    /\ Contains(Upper(lines[1]), <<".","T","I","F">>)
    /\ textures = <<CleanTex(lines[1])>>
    /\ current_submesh # <<>>
    /\ Len(current_submesh[1].vertices) >= 1
    /\ current_submesh[1].textures = <<>>
    /\ Contains(Upper(lines[i]), <<".","T","I","F">>)
    /\ ~StartsWith(Lower(lines[i]), <<"v">>)
    /\ CleanTex(lines[i]) # <<>>
    /\ CleanTex(lines[i]) \notin Range(textures)

\* an all-digit line that int() converts
IsIntegerLine(line) == IsDigit(line) /\ IntOf(line) # <<>>

\* the lines of ls before its first submesh-start line
BeforeFirstStart(ls) ==
    IF StartsOf(ls) = <<>> THEN ls ELSE SubSeq(ls, 1, StartsOf(ls)[1] - 1)

\* the integer value of the first integer line of ls, <<>> when it has none
FirstIntegerOf(ls) ==
    LET ds == SelectSeq(ls, IsIntegerLine)
    IN  IF ds = <<>> THEN <<>> ELSE IntOf(ds[1])

(***************************************************************************)
(* C6  the version of the returned model.  As claimed: the integer value   *)
(* of the first all-digit line that stands before any submesh-start line,  *)
(* and absent when no all-digit line stands before the first submesh-start *)
(* line.  (A line counts here when int() gives it a value.)                *)
(***************************************************************************)
C6_VersionOnlyBeforeFirstSubmesh ==
    Returned => results[1].version = FirstIntegerOf(BeforeFirstStart(lines))

(***************************************************************************)
(* C6, amended  the version of the model returned by a fresh parser is the *)
(* integer value of the first all-digit line of the whole input that has   *)
(* one, whether it stands before or after a submesh-start line; it is      *)
(* absent only when the input has no such line.                            *)
(***************************************************************************)
C6_VersionIsFirstIntegerLine ==
    Returned => results[1].version = FirstIntegerOf(lines)

\* a version was returned that was read after the first submesh had started
C6_Witness ==
    /\ Returned
    /\ results[1].version # <<>>
    /\ FirstIntegerOf(BeforeFirstStart(lines)) = <<>>
    /\ Len(SelectSeq(lines, IsIntegerLine)) >= 2

\* the 0-based positions from pos-6 to pos+last, clipped to ls, whose line
\* the scan would take the counts from
CountsLinesAround(ls, pos, last) ==
    {j \in 0..(Len(ls) - 1) : j >= pos - 6 /\ j <= pos + last /\ IsCountsLine(ls[j + 1])}

\* the step from the current line gives the open submesh the hint of the
\* first counts line among positions i-6 .. i+last
HintTakenWithin(last) ==
    (AtCsvRow /\ current_submesh # <<>> /\ ~current_submesh[1].has_counts) =>
        LET W == CountsLinesAround(lines, i, last)
            sm == current_submesh'[1]
        IN  /\ current_submesh' # <<>>
            /\ sm.has_counts
            /\ IF W = {}
               THEN sm.vertex_count = <<>> /\ sm.face_count = <<>>
               ELSE LET j == CHOOSE a \in W : \A b \in W : a <= b
                        p == Split(lines[j + 1], ",")
                    IN  sm.vertex_count = IntOf(p[1]) /\ sm.face_count = IntOf(p[3])

(***************************************************************************)
(* C5  the hint scan.  With a submesh open that has no hint yet, the first *)
(* line to reach the comma split, at position i, sets the submesh's        *)
(* (vertex_count, face_count) to the first and third fields of the first   *)
(* line, among those at positions i-6 .. i+last clipped to the input, that *)
(* splits into at least 4 fields with integer first and third fields, and  *)
(* to (None, None) when there is none.  As claimed, last = 3.              *)
(***************************************************************************)
C5_HintWindowReachesThreeAhead == [][HintTakenWithin(3)]_vars

(***************************************************************************)
(* C5, amended  the same with the window i-6 .. i+2: the line at position  *)
(* i+3 is not examined.                                                    *)
(***************************************************************************)
C5_HintWindowReachesTwoAhead == [][HintTakenWithin(2)]_vars

\* the 0-based position of the first line after the last submesh-start line
\* among the first k lines that is split on commas (-1 when there is none)
ScanRowOf(ls, k) ==
    LET st == StartsUpTo(ls, k)
        rows == {m \in 1..k : (\A a \in st : a < m) /\ IsCsvRow(<<0>>, ls[m])}
    IN  IF st = {} \/ rows = {} THEN -1
        ELSE (CHOOSE a \in rows : \A b \in rows : a <= b) - 1

\* the open submesh took its hint from the line two positions after the row
\* that ran the scan, the only counts line of that window, while the line
\* three positions after the row is a counts line of other values
C5_Witness ==
    /\ pc = "loop"
    /\ current_submesh # <<>>
    /\ current_submesh[1].has_counts
    /\ LET r == ScanRowOf(lines, i)
       IN  /\ r >= 0
           /\ r + 4 <= Len(lines)
           /\ CountsLinesAround(lines, r, 2) = {r + 2}
           /\ IsCountsLine(lines[r + 4])
           /\ lines[r + 4] # lines[r + 3]
           /\ current_submesh[1].vertex_count = IntOf(Split(lines[r + 3], ",")[1])
           /\ current_submesh[1].face_count = IntOf(Split(lines[r + 3], ",")[3])

\* the float of value m * 10^e
Num(m, e) == [k |-> "num", m |-> m, e |-> e]

(***************************************************************************)
(* C10  scenario A: C3DModel / 1 / Body / 10,5,20,4 /                      *)
(* 1.0,2.0,3.0,0,0,1,0.1,0.2 / 0,1,2 parsed by a fresh parser gives        *)
(* version 1, one submesh Body with one vertex and the one face (0,1,2),   *)
(* and the hints vertex_count = 10, face_count = 20 of the 4-field row,    *)
(* which is stored neither as a vertex nor as a face.                      *)
(***************************************************************************)
C10_ScenarioA ==
    (Returned /\ file = ScenarioA) =>
        LET r == results[1]
            v == <<Num(1, 0), Num(2, 0), Num(3, 0), Num(0, 0), Num(0, 0), Num(1, 0),
                   Num(1, -1), Num(2, -1)>>
        IN  /\ r.version = <<1>>
            /\ Len(r.submeshes) = 1
            /\ r.submeshes[1].name = LnBody
            /\ r.submeshes[1].vertices = <<v>>
            /\ r.vertices = <<v>>
            /\ r.submeshes[1].faces = <<<<0, 1, 2>>>>
            /\ r.submeshes[1].has_counts
            /\ r.submeshes[1].vertex_count = <<10>>
            /\ r.submeshes[1].face_count = <<20>>

\* scenario A has been parsed and its model returned
C10_Witness == Returned /\ file = ScenarioA /\ Len(results[1].submeshes) = 1

(***************************************************************************)
(* C3  parsing the same input twice gives equal models, also when the two  *)
(* calls are made on the same parser object: the second model returned is  *)
(* equal to the first.                                                     *)
(***************************************************************************)
C3_SecondParseEqualsFirst == Len(results) >= 2 => results[2] = results[1]

\* the branch of the loop that consumes a line: the first whose test the
\* line passes
BranchOf(ver, line) ==
    IF StartsWith(line, <<"C","3","D","M","o","d","e","l">>) THEN "header"
    ELSE IF ver = <<>> /\ IsDigit(line) THEN "version"
    ELSE IF IsAlpha(line) THEN "start"
    ELSE IF StartsWith(Lower(line), <<"v">>) THEN "marker"
    ELSE IF Contains(Upper(line), <<".","T","I","F">>) THEN "texture"
    ELSE "csv"

\* what the step from the line at position i leaves alone when the branch b
\* alone consumes the line
OnlyBranchActs(b, line) ==
    /\ b = "header" =>
          /\ header' = <<"C3DModel">>
          /\ UNCHANGED <<current_submesh, vertices, submeshes, textures, version>>
    /\ b = "version" =>
          UNCHANGED <<current_submesh, vertices, submeshes, textures, header>>
    /\ b = "start" =>
          /\ current_submesh' # <<>>
          /\ current_submesh'[1].name = line
          /\ current_submesh'[1].vertices = <<>>
          /\ current_submesh'[1].faces = <<>>
          /\ Len(submeshes') = Len(submeshes) + Len(current_submesh)
          /\ UNCHANGED <<vertices, textures, version, header>>
    /\ b = "marker" =>
          UNCHANGED <<current_submesh, vertices, submeshes, textures, version, header>>
    /\ b = "texture" =>
          SameGeometry /\ UNCHANGED <<version, header>>
    /\ b = "csv" =>
          /\ UNCHANGED <<submeshes, textures, version, header>>
          /\ (current_submesh = <<>>) = (current_submesh' = <<>>)
          /\ current_submesh # <<>> =>
                /\ current_submesh'[1].name = current_submesh[1].name
                /\ current_submesh'[1].textures = current_submesh[1].textures

(***************************************************************************)
(* C11  each line is consumed by exactly one branch of the loop, the first *)
(* whose test it passes in the order header, version candidate, submesh    *)
(* start, vertex marker, texture reference, comma-split row: the step from *)
(* the line changes only what that branch changes.  So a line containing   *)
(* .TIF in any letter case adds no vertex and no face whatever its number  *)
(* of comma fields, and an all-digit line opens no submesh.                *)
(***************************************************************************)
C11_FirstMatchingBranchConsumes ==
    [][(pc = "loop" /\ i < Len(lines)) =>
          LET line == lines[i + 1]
          IN  /\ OnlyBranchActs(BranchOf(version, line), line)
              /\ Contains(Upper(line), <<".","T","I","F">>) => SameGeometry
              /\ IsDigit(line) =>
                    /\ submeshes' = submeshes
                    /\ (current_submesh = <<>>) = (current_submesh' = <<>>)
                    /\ current_submesh # <<>> =>
                          current_submesh'[1].name = current_submesh[1].name]_vars

\* with a version read and a submesh open, a 3-field line containing .TIF
\* and then an all-digit line have been passed: the submesh is still the
\* open one and has no face
C11_Witness ==
    /\ pc = "loop" /\ i >= 4
    /\ version # <<>>
    /\ current_submesh # <<>>
    /\ current_submesh[1].faces = <<>>
    /\ submeshes = <<>>
    /\ IsDigit(lines[i])
    /\ Contains(Upper(lines[i - 1]), <<".","T","I","F">>)
    /\ Len(Split(lines[i - 1], ",")) = 3

(***************************************************************************)
(* C12  within one parse the version is set at most once: once it holds a  *)
(* value, no step of the parse changes it, whatever the line.              *)
(***************************************************************************)
C12_VersionSetAtMostOnce == [][version # <<>> => version' = version]_vars

\* the version holds the value of an earlier line and an all-digit line of
\* another value has just been passed
C12_Witness ==
    /\ pc = "loop" /\ i >= 2
    /\ version # <<>>
    /\ IsDigit(lines[i])
    /\ IntOf(lines[i]) # <<>>
    /\ IntOf(lines[i]) # version

(***************************************************************************)
(* C13  a returned model is immutable: no later step (in particular none   *)
(* of a later parse call on the same parser) changes the header, version,  *)
(* vertex list, submesh list or texture list of a model already returned.  *)
(***************************************************************************)
C13_ReturnedModelNeverChanges ==
    [][\A k \in 1..Len(returned) : returned'[k] = returned[k]]_vars

\* the loop is at a line the texture branch takes, with no submesh open or
\* with an open submesh that holds no vertex: the line's name is recorded
AtRecordedTexture ==
    /\ pc = "loop" /\ i < Len(lines)
    /\ BranchOf(version, lines[i + 1]) = "texture"
    /\ current_submesh # <<>> => current_submesh[1].vertices = <<>>

\* the line's text with its double quotes removed and its surrounding
\* whitespace trimmed
Unquoted(line) == Strip(SelectSeq(line, LAMBDA c : c # "\""))

\* the text after the last comma of s (all of s when it has no comma),
\* trimmed
AfterLastComma(s) ==
    LET cs == {k \in 1..Len(s) : s[k] = ","}
        last == IF cs = {} THEN 0 ELSE CHOOSE a \in cs : \A b \in cs : a >= b
    IN  Strip(SubSeq(s, last + 1, Len(s)))

\* the step stores name, when it is not empty, in the texture lists and
\* stores nothing else
StoresName(name) ==
    /\ Range(textures') = Range(textures) \cup ({name} \ {<<>>})
    /\ current_submesh # <<>> =>
          /\ current_submesh' # <<>>
          /\ Range(current_submesh'[1].textures) =
                Range(current_submesh[1].textures) \cup ({name} \ {<<>>})

\* the marker .tif in any letter case
HasMarker(s) == Contains(Upper(s), <<".","T","I","F">>)

C19_HintsNeverBoundGeometry ==
    [][(AtCsvRow /\ current_submesh # <<>>) =>
          LET line == lines[i + 1]
              sm == current_submesh[1]
          IN  /\ current_submesh' # <<>>
              /\ submeshes' = submeshes
              /\ current_submesh'[1].vertices =
                    IF IsVertexRow(line) THEN Append(sm.vertices, VertexOf(line))
                    ELSE sm.vertices
              /\ vertices' =
                    IF IsVertexRow(line) THEN Append(vertices, VertexOf(line))
                    ELSE vertices
              /\ current_submesh'[1].faces =
                    IF IsFaceRow(line) THEN Append(sm.faces, FaceOf(line))
                    ELSE sm.faces]_vars

\* the open submesh has the vertex-count hint 1 and holds two vertices
C19_Witness ==
    /\ pc = "loop"
    /\ current_submesh # <<>>
    /\ current_submesh[1].has_counts
    /\ current_submesh[1].vertex_count = <<1>>
    /\ Len(current_submesh[1].vertices) = 2

RECURSIVE VerticesOfAll(_)
\* the vertex lists of the submeshes sms, one after the other
VerticesOfAll(sms) ==
    IF sms = <<>> THEN <<>>
    ELSE VerticesOfAll(SubSeq(sms, 1, Len(sms) - 1)) \o sms[Len(sms)].vertices

\* the submesh that is open and not yet in the submesh list
OpenSubmesh == IF pc \in {"loop", "raised"} THEN current_submesh ELSE <<>>

(***************************************************************************)
(* C20  for a parse on a fresh parser, after every processed line and on   *)
(* return, the model's vertex list is the vertex lists of the closed       *)
(* submeshes, in submesh order, followed by the open submesh's vertex      *)
(* list: every vertex of the global list is in exactly one submesh's list. *)
(***************************************************************************)
C20_GlobalVerticesAreSubmeshVertices ==
    calls <= 1 => vertices = VerticesOfAll(submeshes \o OpenSubmesh)

\* a closed submesh and the open one hold a vertex each
C20_Witness ==
    /\ pc = "loop" /\ calls = 1
    /\ Len(submeshes) = 1
    /\ Len(submeshes[1].vertices) = 1
    /\ current_submesh # <<>>
    /\ Len(current_submesh[1].vertices) = 1
    /\ Len(vertices) = 2

\* the 1-based positions of the start-token lines of the stream f, in order
TokensOf(f) ==
    SelectSeq([k \in 1..Len(f) |-> k],
              LAMBDA k : Strip(f[k]) = <<"C","3","D","M","o","d","e","l">>)

\* the j-th span of f: its j-th start-token line with the lines up to the
\* next start-token line or the end of the stream
SpanOf(f, j) ==
    LET st == TokensOf(f)
    IN  SubSeq(f, st[j], IF j < Len(st) THEN st[j + 1] - 1 ELSE Len(f))

(***************************************************************************)
(* C14  after extract_smfs_from_pod has finished on a stream with k        *)
(* start-token lines, the output directory holds k files and each of the k *)
(* spans is held complete and in order in a file of its own, also when     *)
(* several spans hold a texture line that yields the same model name.      *)
(***************************************************************************)
C14_EverySpanKeepsItsOwnFile ==
    ppc = "done" =>
        LET k == Len(TokensOf(pod_file))
        IN  /\ Cardinality(DOMAIN output_dir) = k
            /\ \E g \in [1..k -> DOMAIN output_dir] :
                  /\ \A a, b \in 1..k : a # b => g[a] # g[b]
                  /\ \A j \in 1..k : output_dir[g[j]] = SpanOf(pod_file, j)

\* the line the for loop is at, inside a span whose file is open
AtSpanLine ==
    /\ ppc = "loop" /\ pod_read < Len(pod_file)
    /\ current_file = "open"
    /\ Strip(pod_file[pod_read + 1]) # <<"C","3","D","M","o","d","e","l">>

\* a line that names a model: it contains _bump.TIF and is UTF-8 text
NamesModel(raw) ==
    /\ Contains(Strip(raw), <<"_","b","u","m","p",".","T","I","F">>)
    /\ "xFF" \notin Range(raw)

\* the file name a line that names a model gives: the text before its first
\* underscore, leading and trailing double quotes apart, and .smf
NameFrom(raw) ==
    LET text == StripCh(Strip(raw), "\"")
        us == {k \in 1..Len(text) : text[k] = "_"}
        first == CHOOSE a \in us : \A b \in us : a <= b
    IN  SubSeq(text, 1, first - 1) \o <<".","s","m","f">>

\* a file name given by a rename, not by the creation of the file
IsGivenName(name) == ~StartsWith(name, <<"s","m","f","_">>)

(***************************************************************************)
(* C15  the name of a span's file comes from the first texture line of the *)
(* span: once the file has been renamed, no later line of the same span    *)
(* renames it again.  As claimed.                                          *)
(***************************************************************************)
C15_RenamedAtMostOncePerSpan ==
    [][(AtSpanLine /\ IsGivenName(current_path[1])) =>
          current_path' = current_path]_vars

(***************************************************************************)
(* C15, amended  every line of a span that contains _bump.TIF and decodes  *)
(* as UTF-8 renames the span's file to the text before the line's first    *)
(* underscore plus .smf, unless the file has that name already: whether    *)
(* or not the file was renamed before and whether or not vertex rows came  *)
(* first.  The rename either succeeds, and the file with all the span's    *)
(* lines so far is under the new name, or fails, and the file keeps its    *)
(* name and is left closed.  No other line of the span changes the name.   *)
(***************************************************************************)
C15_EveryBumpLineRenames ==
    [][AtSpanLine =>
          LET raw == pod_file[pod_read + 1]
              old == current_path[1]
              written == Append(output_dir[old], raw)
          IN  IF NamesModel(raw) /\ NameFrom(raw) # old
              THEN \/ /\ current_path' = <<NameFrom(raw)>>
                      /\ current_file' = "open"
                      /\ old \notin DOMAIN output_dir'
                      /\ output_dir'[NameFrom(raw)] = written
                   \/ /\ current_path' = current_path
                      /\ current_file' = "closed"
                      /\ output_dir'[old] = written
              ELSE /\ current_path' = current_path
                   /\ current_file' = "open"
                   /\ output_dir'[old] = written]_vars

\* a span's file has been renamed twice, the second time by a line that
\* follows a vertex row: it has the name the later line gives
C15_Witness ==
    /\ ppc = "loop" /\ pod_read >= 4
    /\ Strip(pod_file[pod_read - 3]) = <<"C","3","D","M","o","d","e","l">>
    /\ NamesModel(pod_file[pod_read - 2])
    /\ Len(Split(pod_file[pod_read - 1], ",")) = 8
    /\ NamesModel(pod_file[pod_read])
    /\ NameFrom(pod_file[pod_read - 2]) # NameFrom(pod_file[pod_read])
    /\ current_file = "open"
    /\ current_path = <<NameFrom(pod_file[pod_read])>>
    /\ DOMAIN output_dir = {NameFrom(pod_file[pod_read])}
    /\ Len(output_dir[NameFrom(pod_file[pod_read])]) = 4

\* the lines of the .OBJ file of kind t
LinesOfKind(ls, t) == SelectSeq(ls, LAMBDA w : w.t = t)

(***************************************************************************)
(* C16  every face (a,b,c) of the submesh at position k is written with    *)
(* the indices a+1+off, b+1+off, c+1+off, off being the sum of the vertex  *)
(* counts of the submeshes at positions 0..k-1 (0 for the first submesh):  *)
(* the f lines an iteration of the loop writes are those of the submesh's  *)
(* faces, in order.                                                        *)
(***************************************************************************)
C16_FacesOffsetByEarlierVertices ==
    [][(epc = "loop" /\ sm_index' = sm_index + 1) =>
          LET sms == returned[Len(returned)].submeshes
              faces == sms[sm_index + 1].faces
              off == Len(VerticesOfAll(SubSeq(sms, 1, sm_index)))
              wrote == LinesOfKind(SubSeq(obj_file', Len(obj_file) + 1, Len(obj_file')), "f")
          IN  /\ sm_index = 0 => off = 0
              /\ Len(wrote) = Len(faces)
              /\ \A j \in 1..Len(faces) :
                    wrote[j].xs = <<faces[j][1] + 1 + off, faces[j][2] + 1 + off,
                                    faces[j][3] + 1 + off>>]_vars

\* the export has finished a model of two submeshes whose second submesh
\* has the face (0,1,2), written as 2 3 4 after the one vertex of the first
C16_Witness ==
    /\ epc = "done"
    /\ Len(returned[1].submeshes) = 2
    /\ Len(returned[1].submeshes[1].vertices) = 1
    /\ returned[1].submeshes[2].faces = <<<<0, 1, 2>>>>
    /\ Len(LinesOfKind(obj_file, "f")) = 1
    /\ LinesOfKind(obj_file, "f")[1].xs = <<2, 3, 4>>

(***************************************************************************)
(* C17  for every model parse returns, export_to_obj takes the submeshes   *)
(* in model order and completes having written exactly one named group per *)
(* submesh, whatever the number of vertices and faces of each submesh,     *)
(* zero vertices included.                                                 *)
(***************************************************************************)
C17_ExportCompletesForEveryModel ==
    /\ (pc = "done" /\ epc # "none") => epc # "raised"
    /\ epc = "done" =>
          LET groups == LinesOfKind(obj_file, "o")
              sms == returned[Len(returned)].submeshes
          IN  /\ Len(groups) = Len(sms)
              /\ \A k \in 1..Len(sms) : groups[k].name = sms[k].name

\* the list holds no name twice and no empty name
IsRegistry(list) ==
    /\ \A a, b \in 1..Len(list) : a # b => list[a] # list[b]
    /\ \A a \in 1..Len(list) : list[a] # <<>>

(***************************************************************************)
(* C21  for a parse on a fresh parser, after every processed line and on   *)
(* return, no texture list (the model's, a closed submesh's or the open    *)
(* submesh's) holds the same name twice or an empty name, and every name   *)
(* of a submesh's texture list is in the model's texture list.             *)
(***************************************************************************)
C21_TextureListsAreRegistries ==
    calls <= 1 =>
        /\ IsRegistry(textures)
        /\ \A sm \in Range(submeshes \o OpenSubmesh) :
              /\ IsRegistry(sm.textures)
              /\ Range(sm.textures) \subseteq Range(textures)

\* with a submesh open, the same texture line has been passed twice and a
\* line with an empty name once: both lists hold the one name once
C21_Witness ==
    /\ pc = "loop" /\ calls = 1 /\ i >= 4
    /\ current_submesh # <<>>
    /\ Contains(Upper(lines[i - 2]), <<".","T","I","F">>)
    /\ lines[i - 1] = lines[i - 2]
    /\ Contains(Upper(lines[i]), <<".","T","I","F">>)
    /\ AfterLastComma(Unquoted(lines[i])) = <<>>
    /\ textures = <<AfterLastComma(Unquoted(lines[i - 1]))>>
    /\ current_submesh[1].textures = textures

\* the 0-based position of the name line of the open submesh: the last
\* submesh-start line before position pos
NameLineBefore(ls, pos) ==
    LET st == {k \in 0..(pos - 1) : IsAlpha(ls[k + 1])}
    IN  CHOOSE a \in st : \A b \in st : a >= b

(***************************************************************************)
(* C22  the count hints recorded for a submesh are only ever taken from a  *)
(* line at or after that submesh's own name line: the step that sets them  *)
(* takes the first counts line among the positions of the scan window that *)
(* are not before the name line, never a line of an earlier submesh's      *)
(* block.                                                                  *)
(***************************************************************************)
C22_HintNeverFromEarlierBlock ==
    [][(AtCsvRow /\ current_submesh # <<>> /\ ~current_submesh[1].has_counts) =>
          LET W == {j \in CountsLinesAround(lines, i, 2) : j >= NameLineBefore(lines, i)}
              sm == current_submesh'[1]
          IN  IF W = {}
              THEN sm.vertex_count = <<>> /\ sm.face_count = <<>>
              ELSE LET j == CHOOSE a \in W : \A b \in W : a <= b
                       p == Split(lines[j + 1], ",")
                   IN  sm.vertex_count = IntOf(p[1]) /\ sm.face_count = IntOf(p[3])]_vars

(***************************************************************************)
(* C23  in extract_smfs_from_pod a failed rename is only a warning: the    *)
(* extraction never aborts, and every line of a span, also one that comes  *)
(* after a failed rename, is written at the end of the span's file.        *)
(***************************************************************************)
C23_FailedRenameIsOnlyAWarning ==
    /\ ppc # "raised"
    /\ (ppc = "loop" /\ pod_read > 0 /\ current_path # <<>>) =>
          LET written == output_dir[current_path[1]]
          IN  written # <<>> /\ written[Len(written)] = pod_file[pod_read]

\* a load has finished and no load is under way or has been given up after
\* it replaced the model
LoadedAndQuiet ==
    /\ running = "yes"
    /\ \E l \in 1..MaxLoads : loads[l].pc = "loaded"
    /\ \A l \in 1..MaxLoads : loads[l].pc \in {"idle", "cancelled", "loaded"}

(***************************************************************************)
(* C24  after load_smf has finished loading a model of n submeshes, with   *)
(* no load under way, the reveal runs from zero up to exactly n and only   *)
(* then is drawing set to false, under every interleaving of the threads.  *)
(* Stated as its safety part: draw_index never exceeds n, and when drawing *)
(* is false the whole model is revealed, draw_index = n.                   *)
(***************************************************************************)
C24_RevealRunsToTheLastSubmesh ==
    LoadedAndQuiet =>
        /\ draw_index <= model_data[1].n
        /\ ~drawing => draw_index = model_data[1].n

(***************************************************************************)
(* C25  SPACE pauses the incremental draw: as long as paused stays true,   *)
(* no step increases draw_index and no step sets drawing to false, under   *)
(* every interleaving of the event loop with the other threads.            *)
(***************************************************************************)
C25_NoRevealStepWhilePaused ==
    [][(paused /\ paused') =>
          /\ draw_index' <= draw_index
          /\ drawing => drawing']_vars

====
